---- MODULE Spec2Model ----
(***************************************************************************)
(* Model of the admin dashboard of the refill-station application          *)
(* (pages/AdminDashboard.tsx, routed from App.tsx): the moderation handler *)
(* handleUpdateStatus with the two react-query views it refreshes, and the *)
(* debounced live search handleSearch.                                     *)
(*                                                                         *)
(* Every awaited store call is one step: the handler is suspended between  *)
(* the steps (field pc of a call), and other handlers run in between.      *)
(* A fetch of a react-query view replaces the view's data or, when it      *)
(* fails, keeps the old data; it throws nothing to the awaiting handler.   *)
(* Strings of the search are sequences of one-character strings.           *)
(*                                                                         *)
(* Spec is the moderation handler, RaceSpec the same with a third          *)
(* invocation, ClockSpec the same with the clock advancing, LiveSpec the   *)
(* same under fairness of the resumptions, ApproveSpec the handler beside  *)
(* approveStation, SearchSpec the live search, and ViewSpec the two lists  *)
(* with their local filter over sampled contents of the table.             *)
(***************************************************************************)
EXTENDS Integers, Sequences, FiniteSets, TLC

VARIABLES
    isAdmin,           \* useAuth().isAdmin of the signed-in user
    store,             \* table refill_stations: id -> row, or NoRow
    clock,             \* the browser's clock (new Date())
    updatingId,        \* useState updatingId
    pendingStations,   \* data of useQuery ['pendingStations']
    verifiedStations,  \* data of useQuery ['verifiedStations']
    mapInvalidated,    \* query ['verifiedRefillStations'] marked invalidated
    calls,             \* the invocations of handleUpdateStatus, in call order
    approvals,         \* the invocations of approveStation, in call order
    unstamped,         \* history: a status write was sent without updated_at
    searchQuery,       \* useState searchQuery
    searchResults,     \* useState searchResults
    timers,            \* pending setTimeout callbacks of the debounce effect
    requests,          \* remote searches awaiting their response
    issued,            \* history: number of remote searches issued so far
    sinceChange,       \* history: remote searches issued since the last query change
    quiet,             \* history: time elapsed since the last query change
    lastIssued,        \* history: query of the most recently issued remote search, and the
                       \*          time since the last query change when it was issued
    applied,           \* history: sequence number of the search whose response set searchResults
    blankCleared,      \* history: a blank search cleared the results, no search issued since
    opened,            \* history: openGoogleMaps signals, in order
    lastResponse,      \* history: the search response handled last
    burst,             \* history: query changes that followed one another within Debounce
    filteredPending,   \* filteredPending as computed by the last render
    filteredVerified,  \* filteredVerified as computed by the last render
    renders            \* history: renders since searchQuery or a list last changed

decideVars == <<isAdmin, store, clock, updatingId, pendingStations, verifiedStations,
                mapInvalidated, calls>>
searchVars == <<searchQuery, searchResults, timers, requests, issued, sinceChange,
                quiet, lastIssued, applied, blankCleared, opened, lastResponse, burst>>
approveVars == <<approvals, unstamped>>
filterVars == <<filteredPending, filteredVerified, renders>>
vars == <<decideVars, searchVars, approveVars, filterVars>>

----------------------------------------------------------------------------
(* Bounds *)

MaxCalls == 2     \* invocations of handleUpdateStatus in one run of Spec
MaxRaceCalls == 3 \* invocations of handleUpdateStatus in one run of RaceSpec
MaxClock == 1     \* clock readings 0..MaxClock
MaxDeleted == 1   \* rows removed by other clients in one run
MaxSearches == 2  \* remote searches issued in one run
MaxApprovals == 1      \* invocations of approveStation
MaxApproveCalls == 1   \* invocations of handleUpdateStatus in one run of ApproveSpec
MaxBurst == 2     \* the count of rapid query changes stops here
MaxLiveCalls == 1      \* invocations of handleUpdateStatus in one run of LiveSpec
MaxRenders == 2   \* renders counted between two changes of the filter's inputs

----------------------------------------------------------------------------
(* The record store *)

Ids == {"s1", "s2"}
NoId == "null"

\* a text is a sequence of one-character strings; a null or undefined text is NullText
NullText == <<"null">>

\* the sentinel "Unknown"
Unknown == <<"U", "n", "k", "n", "o", "w", "n">>

\* column created_at, fixed at submission
created_at(id) == IF id = "s1" THEN 1 ELSE 2

\* column added_by, the submitter
added_by(id) == IF id = "s1" THEN "u1" ELSE "u2"

\* columns latitude and longitude as submitted, in whole degrees
latitude(id) == IF id = "s1" THEN 18 ELSE 0 - 7
longitude(id) == IF id = "s1" THEN 73 ELSE 105

\* Number.prototype.toString of a whole number: sign and decimal digits
Digit(d) == CASE d = 0 -> "0" [] d = 1 -> "1" [] d = 2 -> "2" [] d = 3 -> "3" [] d = 4 -> "4"
              [] d = 5 -> "5" [] d = 6 -> "6" [] d = 7 -> "7" [] d = 8 -> "8" [] d = 9 -> "9"

RECURSIVE Digits(_)
Digits(n) == IF n < 10 THEN <<Digit(n)>> ELSE Append(Digits(n \div 10), Digit(n % 10))

NumToString(n) == IF n < 0 THEN <<"-">> \o Digits(0 - n) ELSE Digits(n)

\* parseFloat of such a string
DigitValue(ch) == CHOOSE d \in 0..9 : Digit(d) = ch

RECURSIVE ParseDigits(_)
ParseDigits(t) ==
    IF t = <<>> THEN 0
    ELSE 10 * ParseDigits(SubSeq(t, 1, Len(t) - 1)) + DigitValue(t[Len(t)])

ParseFloat(t) == IF Head(t) = "-" THEN 0 - ParseDigits(Tail(t)) ELSE ParseDigits(t)

\* column name as submitted
name(id) == IF id = "s1" THEN <<"F", "o">> ELSE <<"f", "f">>

\* column description as submitted (never null)
description(id) == IF id = "s1" THEN <<"d">> ELSE <<"D", " ", "x">>

\* column landmark as submitted (optional)
landmark(id) == IF id = "s1" THEN NullText ELSE <<"L">>

\* user_profiles(username, email) joined on added_by: no profile, or its attributes
NoProfile == [joined |-> FALSE, username |-> NullText, email |-> NullText]

user_profiles(id) ==
    IF id = "s1" THEN [joined |-> TRUE, username |-> <<"a", "m">>, email |-> <<>>]
    ELSE NoProfile

\* the columns of a row that no update of this page names
Columns(id) ==
    [name |-> name(id), description |-> description(id), landmark |-> landmark(id),
     latitude |-> latitude(id), longitude |-> longitude(id),
     added_by |-> added_by(id), created_at |-> created_at(id),
     user_profiles |-> user_profiles(id)]

NoColumns ==
    [name |-> <<>>, description |-> <<>>, landmark |-> NullText,
     latitude |-> 0, longitude |-> 0, added_by |-> NoId, created_at |-> 0,
     user_profiles |-> NoProfile]

NoRow == [status |-> "absent", updated_at |-> 0, columns |-> NoColumns]

Present(id) == store[id] # NoRow

\* station.user_profiles?.username and station.user_profiles?.email
ProfileAttribute(profile, attribute) ==
    IF profile.joined THEN profile[attribute] ELSE NullText

\* the value as it is, without the sentinel
OrUnknownRaw(value) == value

\* value || "Unknown"
OrUnknown(value) == IF value = NullText \/ value = <<>> THEN Unknown ELSE value

\* the map() of fetchPendingStations and of fetchVerifiedStations
StationRow(id, row) ==
    [id |-> id,
     name |-> row.columns.name,
     description |-> row.columns.description,
     landmark |-> row.columns.landmark,
     status |-> row.status,
     latitude |-> ParseFloat(NumToString(row.columns.latitude)),
     longitude |-> ParseFloat(NumToString(row.columns.longitude)),
     username |-> OrUnknown(ProfileAttribute(row.columns.user_profiles, "username")),
     userEmail |-> OrUnknown(ProfileAttribute(row.columns.user_profiles, "email"))]

\* the map() of handleSearch
SearchRow(id, row) ==
    [id |-> id,
     name |-> row.columns.name,
     description |-> row.columns.description,
     landmark |-> row.columns.landmark,
     status |-> row.status,
     latitude |-> ParseFloat(NumToString(row.columns.latitude)),
     longitude |-> ParseFloat(NumToString(row.columns.longitude)),
     user_profiles |->
         [username |-> OrUnknown(ProfileAttribute(row.columns.user_profiles, "username")),
          email |-> OrUnknown(ProfileAttribute(row.columns.user_profiles, "email"))]]

\* FetchByStatus with the rows in ascending order of created_at
FetchByStatusAscending(st) ==
    LET S == {id \in Ids : Present(id) /\ store[id].status = st}
        ord == CHOOSE f \in [1..Cardinality(S) -> S] :
                  /\ \A i, j \in 1..Cardinality(S) : i < j => store[f[i]].columns.created_at < store[f[j]].columns.created_at
        IN  [i \in 1..Cardinality(S) |-> StationRow(ord[i], store[ord[i]])]

\* .eq('status', st).order('created_at', { ascending: false }), mapped to rows of a view
FetchByStatus(st) ==
    LET S == {id \in Ids : Present(id) /\ store[id].status = st}
        ord == CHOOSE f \in [1..Cardinality(S) -> S] :
                  /\ \A i, j \in 1..Cardinality(S) : i < j => store[f[i]].columns.created_at > store[f[j]].columns.created_at
        IN  [i \in 1..Cardinality(S) |-> StationRow(ord[i], store[ord[i]])]

ViewIds(view) == {view[i].id : i \in 1..Len(view)}

Views == {"pendingStations", "verifiedStations", "verifiedRefillStations"}
Refetched == {"pendingStations", "verifiedStations"}

----------------------------------------------------------------------------
(* handleUpdateStatus *)

CallIds == DOMAIN calls

NewCall == [id |-> NoId, newStatus |-> "none", pc |-> "new", ts |-> 0,
             readIssued |-> FALSE, readResult |-> "none", writeIssued |-> FALSE, wrote |-> FALSE, okToast |-> 0, errToast |-> 0,
             errText |-> "none", invDone |-> {}, refDone |-> {},
             verifyIssued |-> FALSE, mismatch |-> FALSE]

\* the Approve / Reject buttons of a pending row: disabled={updatingId === station.id}
ButtonEnabled(id) == id \in ViewIds(pendingStations) /\ updatingId # id

\* Caught without the finally block: the marker stays as it was
CaughtNoFinally(c, text, read) ==
    /\ calls' = [calls EXCEPT ![c].pc = "settled",
                              ![c].readResult = read,
                              ![c].errToast = @ + 1,
                              ![c].errText = text]
    /\ UNCHANGED updatingId

\* catch: one destructive toast; finally: setUpdatingId(null)
Caught(c, text, read) ==
    /\ calls' = [calls EXCEPT ![c].pc = "settled",
                              ![c].readResult = read,
                              ![c].errToast = @ + 1,
                              ![c].errText = text]
    /\ updatingId' = NoId

\* what select('*').eq('id', id).single() finds
ReadRow(id, transportOk) ==
    IF ~transportOk THEN "error" ELSE IF Present(id) THEN "row" ELSE "absent"

\* onClick={() => handleUpdateStatus(station.id, newStatus)}: setUpdatingId and the
\* first await (the read of the row)
HandleUpdateStatus(id, newStatus) ==
    /\ ButtonEnabled(id)
    /\ updatingId' = id
    /\ calls' = Append(calls, [NewCall EXCEPT !.id = id, !.newStatus = newStatus,
                                              !.pc = "read", !.readIssued = TRUE])
    /\ UNCHANGED <<isAdmin, store, clock, pendingStations, verifiedStations, mapInvalidated>>

\* ReadVerifyDone with fetchError ignored: the update is issued whatever the read found
ReadVerifyDoneUnchecked(c) ==
    /\ calls[c].pc = "read"
    /\ \E transportOk \in BOOLEAN :
         calls' = [calls EXCEPT ![c].pc = "write",
                                ![c].readResult = ReadRow(calls[c].id, transportOk),
                                ![c].ts = clock,
                                ![c].writeIssued = TRUE]
    /\ UNCHANGED <<isAdmin, store, clock, updatingId, pendingStations, verifiedStations,
                   mapInvalidated>>

\* the read-verify select().eq('id').single() returns; on fetchError throw, otherwise
\* issue the update with updated_at: new Date()
ReadVerifyDone(c) ==
    /\ calls[c].pc = "read"
    /\ \E transportOk \in BOOLEAN :
         IF ReadRow(calls[c].id, transportOk) = "row"
         THEN /\ calls' = [calls EXCEPT ![c].pc = "write",
                                        ![c].readResult = "row",
                                        ![c].ts = clock,
                                        ![c].writeIssued = TRUE]
              /\ UNCHANGED updatingId
         ELSE Caught(c, "Could not find the station to update",
                     ReadRow(calls[c].id, transportOk))
    /\ UNCHANGED <<isAdmin, store, clock, pendingStations, verifiedStations,
                   mapInvalidated>>

\* UpdateDone that leaves the handler where it is when the update fails: no catch,
\* no finally
UpdateDoneCancelled(c) ==
    /\ calls[c].pc = "write"
    /\ \E transportOk \in BOOLEAN :
         IF transportOk /\ Present(calls[c].id)
         THEN /\ store' = [store EXCEPT ![calls[c].id].status = calls[c].newStatus,
                                         ![calls[c].id].updated_at = calls[c].ts]
              /\ calls' = [calls EXCEPT ![c].pc = "invalidate",
                                        ![c].wrote = TRUE,
                                        ![c].okToast = @ + 1]
         ELSE /\ calls' = [calls EXCEPT ![c].pc = "cancelled"]
              /\ UNCHANGED store
    /\ UNCHANGED <<isAdmin, clock, updatingId, pendingStations, verifiedStations,
                   mapInvalidated>>

\* UpdateDone that writes the whole row anew from the two values it was given
UpdateDoneUpsert(c) ==
    /\ calls[c].pc = "write"
    /\ \E transportOk \in BOOLEAN :
         IF transportOk /\ Present(calls[c].id)
         THEN /\ store' = [store EXCEPT ![calls[c].id] =
                              [status |-> calls[c].newStatus, updated_at |-> calls[c].ts,
                               columns |-> NoColumns]]
              /\ calls' = [calls EXCEPT ![c].pc = "invalidate",
                                        ![c].wrote = TRUE,
                                        ![c].okToast = @ + 1]
              /\ UNCHANGED updatingId
         ELSE /\ Caught(c, "updateError", calls[c].readResult)
              /\ UNCHANGED store
    /\ UNCHANGED <<isAdmin, clock, pendingStations, verifiedStations, mapInvalidated>>

\* UpdateDone that ignores updateError and goes on to the invalidations
UpdateDoneSwallows(c) ==
    /\ calls[c].pc = "write"
    /\ \E transportOk \in BOOLEAN :
         IF transportOk /\ Present(calls[c].id)
         THEN /\ store' = [store EXCEPT ![calls[c].id].status = calls[c].newStatus,
                                         ![calls[c].id].updated_at = calls[c].ts]
              /\ calls' = [calls EXCEPT ![c].pc = "invalidate",
                                        ![c].wrote = TRUE,
                                        ![c].okToast = @ + 1]
         ELSE /\ calls' = [calls EXCEPT ![c].pc = "invalidate"]
              /\ UNCHANGED store
    /\ UNCHANGED <<isAdmin, clock, updatingId, pendingStations, verifiedStations,
                   mapInvalidated>>

\* the update().eq('id').select().single() returns; on updateError throw, otherwise
\* the success toast and the three invalidateQueries are issued
UpdateDone(c) ==
    /\ calls[c].pc = "write"
    /\ \E transportOk \in BOOLEAN :
         IF transportOk /\ Present(calls[c].id)
         THEN /\ store' = [store EXCEPT ![calls[c].id].status = calls[c].newStatus,
                                         ![calls[c].id].updated_at = calls[c].ts]
              /\ calls' = [calls EXCEPT ![c].pc = "invalidate",
                                        ![c].wrote = TRUE,
                                        ![c].okToast = @ + 1]
              /\ UNCHANGED updatingId
         ELSE /\ Caught(c, "updateError", calls[c].readResult)
              /\ UNCHANGED store
    /\ UNCHANGED <<isAdmin, clock, pendingStations, verifiedStations, mapInvalidated>>

\* a query's fetch: on success the data is replaced, on failure the old data stays and
\* nothing is thrown to the awaiting handler
QueryFetch(okPending, okVerified) ==
    /\ pendingStations' = IF okPending THEN FetchByStatus("unverified") ELSE pendingStations
    /\ verifiedStations' = IF okVerified THEN FetchByStatus("verified") ELSE verifiedStations

\* InvalidateDone with only the two queries of this page invalidated
InvalidateDoneOwnKeys(c) ==
    /\ calls[c].pc = "invalidate"
    /\ \E okPending, okVerified \in BOOLEAN : QueryFetch(okPending, okVerified)
    /\ calls' = [calls EXCEPT ![c].invDone = Refetched, ![c].pc = "refetch"]
    /\ UNCHANGED <<isAdmin, store, clock, updatingId, mapInvalidated>>

\* InvalidateDone with the two refetch calls not awaited: the double-check read is
\* issued at once
InvalidateDoneNoAwait(c) ==
    /\ calls[c].pc = "invalidate"
    /\ \E okPending, okVerified \in BOOLEAN :
         /\ QueryFetch(okPending, okVerified)
         /\ calls' = [calls EXCEPT ![c].invDone = Views, ![c].pc = "verify",
                                   ![c].verifyIssued = TRUE]
    /\ mapInvalidated' = TRUE
    /\ UNCHANGED <<isAdmin, store, clock, updatingId>>

\* await Promise.all([invalidateQueries x 3]) resumes: the three queries are marked
\* invalidated and the two mounted on this page are fetched again; the handler then
\* issues refetchPending() and refetchVerified()
InvalidateDone(c) ==
    /\ calls[c].pc = "invalidate"
    /\ \E okPending, okVerified \in BOOLEAN :
         /\ QueryFetch(okPending, okVerified)
         /\ calls' = [calls EXCEPT ![c].invDone = Views, ![c].pc = "refetch"]
    /\ mapInvalidated' = TRUE
    /\ UNCHANGED <<isAdmin, store, clock, updatingId>>

\* await Promise.all([refetchPending(), refetchVerified()]) resumes; the handler then
\* issues the double-check read
RefetchDone(c) ==
    /\ calls[c].pc = "refetch"
    /\ \E okPending, okVerified \in BOOLEAN :
         /\ QueryFetch(okPending, okVerified)
         /\ calls' = [calls EXCEPT ![c].refDone = Refetched,
                                   ![c].pc = "verify",
                                   ![c].verifyIssued = TRUE]
    /\ UNCHANGED <<isAdmin, store, clock, updatingId, mapInvalidated>>

\* VerifyDone that throws on an anomaly, into the catch block
VerifyDoneThrows(c) ==
    /\ calls[c].pc = "verify"
    /\ \E transportOk \in BOOLEAN :
         IF /\ transportOk
            /\ Present(calls[c].id)
            /\ store[calls[c].id].status = calls[c].newStatus
         THEN /\ calls' = [calls EXCEPT ![c].pc = "settled"]
              /\ updatingId' = NoId
         ELSE /\ calls' = [calls EXCEPT ![c].pc = "settled",
                                        ![c].mismatch = TRUE,
                                        ![c].errToast = @ + 1,
                                        ![c].errText = "verifyError"]
              /\ updatingId' = NoId
    /\ UNCHANGED <<isAdmin, store, clock, pendingStations, verifiedStations,
                   mapInvalidated>>

\* the double-check read returns: an error or a status mismatch is logged only;
\* finally: setUpdatingId(null)
VerifyDone(c) ==
    /\ calls[c].pc = "verify"
    /\ \E transportOk \in BOOLEAN :
         calls' = [calls EXCEPT ![c].pc = "settled",
                                ![c].mismatch = ~(/\ transportOk
                                                  /\ Present(calls[c].id)
                                                  /\ store[calls[c].id].status = calls[c].newStatus)]
    /\ updatingId' = NoId
    /\ UNCHANGED <<isAdmin, store, clock, pendingStations, verifiedStations,
                   mapInvalidated>>

\* another client of the table removes a row
RowDeleted(id) ==
    /\ Present(id)
    /\ Cardinality({i \in Ids : ~Present(i)}) < MaxDeleted
    /\ store' = [store EXCEPT ![id] = NoRow]
    /\ UNCHANGED <<isAdmin, clock, updatingId, pendingStations, verifiedStations,
                   mapInvalidated, calls>>

\* the browser's clock advances
Tick ==
    /\ clock < MaxClock
    /\ clock' = clock + 1
    /\ UNCHANGED <<isAdmin, store, updatingId, pendingStations, verifiedStations,
                   mapInvalidated, calls>>

----------------------------------------------------------------------------
(* approveStation *)

\* approveStation(stationId): the update({ status: 'verified' }) is sent
ApproveStation(id) ==
    /\ approvals' = Append(approvals, [id |-> id, pc |-> "write", fetching |-> FALSE])
    /\ UNCHANGED <<decideVars, unstamped>>

\* ApproveDone with an update that puts the row back to unverified
ApproveDoneReverts(a) ==
    /\ approvals[a].pc = "write"
    /\ store' = IF Present(approvals[a].id)
                THEN [store EXCEPT ![approvals[a].id].status = "unverified"]
                ELSE store
    /\ unstamped' = (unstamped \/ Present(approvals[a].id))
    /\ approvals' = [approvals EXCEPT ![a].pc = "done", ![a].fetching = TRUE]
    /\ UNCHANGED <<isAdmin, clock, updatingId, pendingStations, verifiedStations,
                   mapInvalidated, calls>>

\* the update returns: on error it is logged and thrown, otherwise the row (if any) has
\* status verified and its other columns as before, and fetchUnverifiedStations() and
\* fetchVerifiedStations() are started without await
ApproveDone(a) ==
    /\ approvals[a].pc = "write"
    /\ \E transportOk \in BOOLEAN :
         IF transportOk
         THEN /\ store' = IF Present(approvals[a].id)
                           THEN [store EXCEPT ![approvals[a].id].status = "verified"]
                           ELSE store
              /\ unstamped' = (unstamped \/ Present(approvals[a].id))
              /\ approvals' = [approvals EXCEPT ![a].pc = "done", ![a].fetching = TRUE]
         ELSE /\ approvals' = [approvals EXCEPT ![a].pc = "failed"]
              /\ UNCHANGED <<store, unstamped>>
    /\ UNCHANGED <<isAdmin, clock, updatingId, pendingStations, verifiedStations,
                   mapInvalidated, calls>>

\* the two fetches started by approveStation settle; nothing reads their results
ApproveFetchesDone(a) ==
    /\ approvals[a].fetching
    /\ approvals' = [approvals EXCEPT ![a].fetching = FALSE]
    /\ UNCHANGED <<decideVars, unstamped>>

----------------------------------------------------------------------------
(* handleSearch and the debounce effect *)

Debounce == 300            \* setTimeout(..., 300)
Steps == {100}             \* amounts of time that pass in one step

\* what the input's onChange may put into searchQuery
Queries == {<<>>, <<" ">>, <<"f">>, <<"f", "o">>, <<"o", " ">>, <<"x">>}

\* String.prototype.trim
RECURSIVE TrimLeft(_)
TrimLeft(q) == IF q # <<>> /\ Head(q) = " " THEN TrimLeft(Tail(q)) ELSE q

RECURSIVE TrimRight(_)
TrimRight(q) == IF q # <<>> /\ q[Len(q)] = " " THEN TrimRight(SubSeq(q, 1, Len(q) - 1)) ELSE q

Trim(q) == TrimRight(TrimLeft(q))

\* case folding of ilike
LowerChar(ch) ==
    CASE ch = "F" -> "f" [] ch = "O" -> "o" [] ch = "A" -> "a" [] ch = "D" -> "d"
      [] ch = "L" -> "l" [] ch = "U" -> "u" [] OTHER -> ch

ToLower(q) == [i \in 1..Len(q) |-> LowerChar(q[i])]

\* text contains q as a contiguous substring
Includes(text, q) ==
    \E k \in 0..(Len(text) - Len(q)) : SubSeq(text, k + 1, k + Len(q)) = q

\* the filter's predicate without toLowerCase
MatchesCaseSensitive(station, q) ==
    \/ q = <<>>
    \/ Includes(station.name, q)
    \/ Includes(station.description, q)
    \/ station.username # NullText /\ Includes(station.username, q)
    \/ station.userEmail # NullText /\ Includes(station.userEmail, q)
    \/ /\ station.landmark # NullText
       /\ station.landmark # <<>>
       /\ Includes(station.landmark, q)

\* the predicate of filteredPending and filteredVerified: searchQuery === "" or the
\* lower-cased query occurs in the lower-cased name, description, username, userEmail
\* or (when truthy) landmark
Matches(station, q) ==
    \/ q = <<>>
    \/ Includes(ToLower(station.name), ToLower(q))
    \/ Includes(ToLower(station.description), ToLower(q))
    \/ station.username # NullText /\ Includes(ToLower(station.username), ToLower(q))
    \/ station.userEmail # NullText /\ Includes(ToLower(station.userEmail), ToLower(q))
    \/ /\ station.landmark # NullText
       /\ station.landmark # <<>>
       /\ Includes(ToLower(station.landmark), ToLower(q))

\* Array.prototype.filter with that predicate: a new array, the list is not touched
FilterStations(list, q) == SelectSeq(list, LAMBDA station : Matches(station, q))

\* .ilike('name', `%${query}%`) over the rows of the table, then the transform to
\* StationWithProfile rows
RemoteSearch(query) ==
    LET S == {id \in Ids : /\ Present(id)
                            /\ Includes(ToLower(store[id].columns.name), ToLower(query))}
        ord == CHOOSE f \in [1..Cardinality(S) -> S] :
                  \A i, j \in 1..Cardinality(S) : i < j => store[f[i]].columns.created_at < store[f[j]].columns.created_at
    IN  [i \in 1..Cardinality(S) |-> SearchRow(ord[i], store[ord[i]])]

\* openGoogleMaps(latitude, longitude): a window on that place
OpenGoogleMaps(seq, station) ==
    [seq |-> seq, latitude |-> station.latitude, longitude |-> station.longitude]

\* an effect without cleanup: the earlier timers stay pending
KeepTimeout(pending) == pending

\* the effect's cleanup: clearTimeout(timeoutId)
ClearTimeout(pending) == {}

\* useEffect(..., [searchQuery]) after searchQuery changed to q: the cleanup of the
\* previous run, then a new timer
DebounceEffect(q) == ClearTimeout(timers) \cup {[query |-> q, remaining |-> Debounce]}

\* onChange={(e) => setSearchQuery(e.target.value)} with a value other than the
\* current one (an equal value re-renders nothing)
ChangeQuery(q) ==
    /\ q # searchQuery
    /\ searchQuery' = q
    /\ timers' = DebounceEffect(q)
    /\ sinceChange' = 0
    /\ quiet' = 0
    /\ burst' = IF quiet >= Debounce THEN 1
                 ELSE IF burst < MaxBurst THEN burst + 1 ELSE burst
    /\ UNCHANGED <<searchResults, requests, issued, lastIssued, applied, blankCleared, opened,
                   lastResponse>>

\* time passes, no timer being overdue
PassTime(d) ==
    /\ timers # {}
    /\ \A t \in timers : t.remaining >= d
    /\ timers' = {[t EXCEPT !.remaining = @ - d] : t \in timers}
    /\ quiet' = IF quiet + d > Debounce THEN Debounce ELSE quiet + d
    /\ UNCHANGED <<searchQuery, searchResults, requests, issued, sinceChange, lastIssued,
                   applied, blankCleared, opened, lastResponse, burst>>

\* handleSearch(query) up to its first await: a blank query clears the results and
\* returns, any other query issues the remote search
HandleSearch(query, rest) ==
    /\ searchQuery' = query
    /\ timers' = IF query = searchQuery THEN rest
                 ELSE ClearTimeout(rest) \cup {[query |-> query, remaining |-> Debounce]}
    /\ IF Trim(query) = <<>>
       THEN /\ searchResults' = <<>>
            /\ applied' = 0
            /\ blankCleared' = TRUE
            /\ UNCHANGED <<requests, issued, sinceChange, lastIssued>>
       ELSE /\ issued < MaxSearches
            /\ issued' = issued + 1
            /\ requests' = requests \cup {[seq |-> issued + 1, query |-> query]}
            /\ sinceChange' = sinceChange + 1
            /\ lastIssued' = [query |-> query, quiet |-> quiet]
            /\ blankCleared' = FALSE
            /\ UNCHANGED <<searchResults, applied>>
    /\ UNCHANGED <<quiet, opened, lastResponse, burst>>

\* the debounce timer expires: handleSearch(searchQuery) with the query of the render
\* that set the timer
TimerFires(t) ==
    /\ t \in timers
    /\ t.remaining = 0
    /\ HandleSearch(t.query, timers \ {t})

\* SearchReturns that opens the map for the first match of any non-empty result
SearchReturnsAnyMatch(r) ==
    /\ r \in requests
    /\ requests' = requests \ {r}
    /\ \E ok \in BOOLEAN :
         IF ok
         THEN /\ searchResults' = RemoteSearch(r.query)
              /\ applied' = r.seq
              /\ lastResponse' = [seq |-> r.seq, outcome |-> "data",
                                  count |-> Len(RemoteSearch(r.query))]
              /\ opened' = IF Len(RemoteSearch(r.query)) >= 1
                           THEN Append(opened, OpenGoogleMaps(r.seq, RemoteSearch(r.query)[1]))
                           ELSE opened
         ELSE /\ lastResponse' = [seq |-> r.seq, outcome |-> "error", count |-> 0]
              /\ UNCHANGED <<searchResults, applied, opened>>
    /\ UNCHANGED <<searchQuery, timers, issued, sinceChange, quiet, lastIssued, blankCleared,
                   burst>>

\* the remote search of request r returns: on error only a log line, otherwise the
\* rows replace searchResults and a single match opens the map
SearchReturns(r) ==
    /\ r \in requests
    /\ requests' = requests \ {r}
    /\ \E ok \in BOOLEAN :
         IF ok
         THEN /\ searchResults' = RemoteSearch(r.query)
              /\ applied' = r.seq
              /\ lastResponse' = [seq |-> r.seq, outcome |-> "data",
                                  count |-> Len(RemoteSearch(r.query))]
              /\ opened' = IF Len(RemoteSearch(r.query)) = 1
                           THEN Append(opened, OpenGoogleMaps(r.seq, RemoteSearch(r.query)[1]))
                           ELSE opened
         ELSE /\ lastResponse' = [seq |-> r.seq, outcome |-> "error", count |-> 0]
              /\ UNCHANGED <<searchResults, applied, opened>>
    /\ UNCHANGED <<searchQuery, timers, issued, sinceChange, quiet, lastIssued, blankCleared,
                   burst>>

----------------------------------------------------------------------------
(* The lists of the page and their local filter *)

\* what the store may hold when the page is opened
Statuses == {"unverified", "verified", "rejected"}
Landmarks == {NullText, <<"L">>}
Profiles == {NoProfile,
             [joined |-> TRUE, username |-> <<"a", "m">>, email |-> <<>>],
             [joined |-> TRUE, username |-> NullText, email |-> <<"e">>],
             [joined |-> TRUE, username |-> <<"a", "m">>, email |-> <<"e">>]}

SampleRows(id) ==
    {[status |-> st, updated_at |-> 0,
      columns |-> [Columns(id) EXCEPT !.landmark = l, !.user_profiles = p]] :
        st \in Statuses, l \in Landmarks, p \in Profiles}

\* what the search box may hold
FilterQueries == Queries \cup {<<"A">>, <<"D">>, <<"e">>, <<"l">>, <<"k", "N">>}

\* a render that writes the filtered rows back into the lists
RenderInPlace ==
    /\ renders < MaxRenders
    /\ filteredPending' = FilterStations(pendingStations, searchQuery)
    /\ filteredVerified' = FilterStations(verifiedStations, searchQuery)
    /\ pendingStations' = filteredPending'
    /\ verifiedStations' = filteredVerified'
    /\ renders' = renders + 1
    /\ UNCHANGED <<isAdmin, store, clock, updatingId, mapInvalidated, calls>>
    /\ UNCHANGED <<searchVars, approveVars>>

\* a render of the page: filteredPending and filteredVerified are computed anew from
\* the lists and searchQuery
Render ==
    /\ renders < MaxRenders
    /\ filteredPending' = FilterStations(pendingStations, searchQuery)
    /\ filteredVerified' = FilterStations(verifiedStations, searchQuery)
    /\ renders' = renders + 1
    /\ UNCHANGED <<decideVars, searchVars, approveVars>>

\* the fetches of the two useQuery hooks (on mount, on focus) settle
FetchViews ==
    /\ \E okPending, okVerified \in BOOLEAN : QueryFetch(okPending, okVerified)
    /\ renders' = IF pendingStations' = pendingStations /\ verifiedStations' = verifiedStations
                  THEN renders ELSE 0
    /\ UNCHANGED <<isAdmin, store, clock, updatingId, mapInvalidated, calls>>
    /\ UNCHANGED <<searchVars, approveVars, filteredPending, filteredVerified>>

----------------------------------------------------------------------------

InitDecide ==
    /\ isAdmin \in BOOLEAN
    /\ store = [id \in Ids |-> [status |-> "unverified", updated_at |-> 0,
                                 columns |-> Columns(id)]]
    /\ clock = 0
    /\ updatingId = NoId
    /\ pendingStations = FetchByStatus("unverified")
    /\ verifiedStations = <<>>
    /\ mapInvalidated = FALSE
    /\ calls = <<>>

InitSearch ==
    /\ searchQuery = <<>>
    /\ searchResults = <<>>
    /\ timers = {[query |-> <<>>, remaining |-> Debounce]}
    /\ requests = {}
    /\ issued = 0
    /\ sinceChange = 0
    /\ quiet = 0
    /\ lastIssued = [query |-> <<>>, quiet |-> 0]
    /\ applied = 0
    /\ blankCleared = FALSE
    /\ opened = <<>>
    /\ lastResponse = [seq |-> 0, outcome |-> "none", count |-> 0]
    /\ burst = 0

InitApprove ==
    /\ approvals = <<>>
    /\ unstamped = FALSE

InitFilter ==
    /\ filteredPending = <<>>
    /\ filteredVerified = <<>>
    /\ renders = 0

Init == InitDecide /\ InitSearch /\ InitApprove /\ InitFilter

\* the page just opened on some content of the table, the lists not loaded yet, a
\* query typed and its debounce elapsed
InitViews ==
    /\ isAdmin = TRUE
    /\ store \in {f \in [Ids -> UNION {SampleRows(id) : id \in Ids}] :
                     \A id \in Ids : f[id] \in SampleRows(id)}
    /\ clock = 0
    /\ updatingId = NoId
    /\ pendingStations = <<>>
    /\ verifiedStations = <<>>
    /\ mapInvalidated = FALSE
    /\ calls = <<>>
    /\ searchQuery \in FilterQueries
    /\ searchResults = <<>>
    /\ timers = {[query |-> searchQuery, remaining |-> 0]}
    /\ requests = {}
    /\ issued = 0
    /\ sinceChange = 0
    /\ quiet = Debounce
    /\ lastIssued = [query |-> <<>>, quiet |-> 0]
    /\ applied = 0
    /\ blankCleared = FALSE
    /\ opened = <<>>
    /\ lastResponse = [seq |-> 0, outcome |-> "none", count |-> 0]
    /\ burst = IF searchQuery = <<>> THEN 0 ELSE 1
    /\ InitApprove
    /\ InitFilter

\* the steps of the handlers in flight, and of the store's other clients
Resume ==
    \/ \E c \in CallIds : ReadVerifyDone(c) /\ UNCHANGED <<searchVars, approveVars, filterVars>>
    \/ \E c \in CallIds : UpdateDone(c) /\ UNCHANGED <<searchVars, approveVars, filterVars>>
    \/ \E c \in CallIds : InvalidateDone(c) /\ UNCHANGED <<searchVars, approveVars, filterVars>>
    \/ \E c \in CallIds : RefetchDone(c) /\ UNCHANGED <<searchVars, approveVars, filterVars>>
    \/ \E c \in CallIds : VerifyDone(c) /\ UNCHANGED <<searchVars, approveVars, filterVars>>
    \/ \E id \in Ids : RowDeleted(id) /\ UNCHANGED <<searchVars, approveVars, filterVars>>

\* a click on an enabled Approve or Reject button
Click ==
    \E id \in Ids, newStatus \in {"verified", "rejected"} :
        HandleUpdateStatus(id, newStatus) /\ UNCHANGED <<searchVars, approveVars, filterVars>>

Next ==
    \/ Len(calls) < MaxCalls /\ Click
    \/ Resume

Spec == Init /\ [][Next]_vars

NextRace ==
    \/ Len(calls) < MaxRaceCalls /\ Click
    \/ Resume

\* Spec with room for a third invocation
RaceSpec == Init /\ [][NextRace]_vars

NextClock ==
    \/ Next
    \/ Tick /\ UNCHANGED <<searchVars, approveVars, filterVars>>

\* Spec with the clock advancing between the steps
ClockSpec == Init /\ [][NextClock]_vars

\* the steps of the handlers in flight, the table having no other client
Continue ==
    \/ \E c \in CallIds : ReadVerifyDone(c) /\ UNCHANGED <<searchVars, approveVars, filterVars>>
    \/ \E c \in CallIds : UpdateDone(c) /\ UNCHANGED <<searchVars, approveVars, filterVars>>
    \/ \E c \in CallIds : InvalidateDone(c) /\ UNCHANGED <<searchVars, approveVars, filterVars>>
    \/ \E c \in CallIds : RefetchDone(c) /\ UNCHANGED <<searchVars, approveVars, filterVars>>
    \/ \E c \in CallIds : VerifyDone(c) /\ UNCHANGED <<searchVars, approveVars, filterVars>>

NextApprove ==
    \/ Len(calls) < MaxApproveCalls /\ Click
    \/ Continue
    \/ /\ Len(approvals) < MaxApprovals
       /\ \E id \in Ids : ApproveStation(id) /\ UNCHANGED <<searchVars, filterVars>>
    \/ \E a \in DOMAIN approvals : ApproveDone(a) /\ UNCHANGED <<searchVars, filterVars>>
    \/ \E a \in DOMAIN approvals : ApproveFetchesDone(a) /\ UNCHANGED <<searchVars, filterVars>>

\* handleUpdateStatus and approveStation invoked side by side
ApproveSpec == Init /\ [][NextApprove]_vars

\* the next resumption of call c
Advance(c) ==
    /\ c \in CallIds
    /\ \/ ReadVerifyDone(c)
       \/ UpdateDone(c)
       \/ InvalidateDone(c)
       \/ RefetchDone(c)
       \/ VerifyDone(c)
    /\ UNCHANGED <<searchVars, approveVars, filterVars>>

NextLive ==
    \/ Len(calls) < MaxLiveCalls /\ Click
    \/ \E c \in 1..MaxLiveCalls : Advance(c)
    \/ \E id \in Ids : RowDeleted(id) /\ UNCHANGED <<searchVars, approveVars, filterVars>>

\* every awaited store call and every awaited fetch returns, with a result or an error
LiveSpec ==
    /\ Init
    /\ [][NextLive]_vars
    /\ \A c \in 1..MaxLiveCalls : WF_vars(Advance(c))

NextViews ==
    \/ FetchViews
    \/ Render
    \/ \E t \in timers : TimerFires(t) /\ UNCHANGED <<decideVars, approveVars, filterVars>>
    \/ \E r \in requests : SearchReturns(r) /\ UNCHANGED <<decideVars, approveVars, filterVars>>

\* the lists, their filter and one search, over every sampled content of the table
ViewSpec == InitViews /\ [][NextViews]_vars

NextSearch ==
    \/ \E q \in Queries : ChangeQuery(q) /\ UNCHANGED <<decideVars, approveVars, filterVars>>
    \/ \E d \in Steps : PassTime(d) /\ UNCHANGED <<decideVars, approveVars, filterVars>>
    \/ \E t \in timers : TimerFires(t) /\ UNCHANGED <<decideVars, approveVars, filterVars>>
    \/ \E r \in requests : SearchReturns(r) /\ UNCHANGED <<decideVars, approveVars, filterVars>>

SearchSpec == Init /\ [][NextSearch]_vars

----------------------------------------------------------------------------
(* Moderation: claims C1 .. C7, under Spec *)

InFlight(c) == calls[c].pc # "settled"

Settled(c) == calls[c].pc = "settled"

Succeeded(c) == Settled(c) /\ calls[c].wrote

\* C1: of two decide calls on the same record that are in flight together, only one
\* reaches the store write; the other ends as AlreadyInProgress with no write.
C1_OneWritePerId ==
    \A c1, c2 \in CallIds :
        (/\ c1 # c2
         /\ calls[c1].id = calls[c2].id
         /\ InFlight(c1)
         /\ InFlight(c2))
        => ~(calls[c1].writeIssued /\ calls[c2].writeIssued)

\* C2: a decide by a caller without the moderator capability fails as Unauthorized,
\* reads nothing from the store, writes nothing, and leaves the status as it was.
C2_UnauthorizedNoStoreAccess ==
    ~isAdmin =>
        /\ \A c \in CallIds :
              /\ ~calls[c].readIssued
              /\ ~calls[c].writeIssued
              /\ Settled(c) => calls[c].errText = "Unauthorized"
        /\ \A id \in Ids : Present(id) => store[id].status = "unverified"

\* C3: a decide whose read-verify finds no row for the id fails as NotFound: it issues
\* no store write, shows no success confirmation, and shows one failure message.
C3_NotFound ==
    \A c \in CallIds :
        calls[c].readResult = "absent" =>
            /\ Settled(c)
            /\ ~calls[c].writeIssued
            /\ ~calls[c].wrote
            /\ calls[c].okToast = 0
            /\ calls[c].errToast = 1
            /\ calls[c].errText = "Could not find the station to update"

\* a decide was started on a row that another client had removed, and has settled
C3_Witness ==
    \E c \in CallIds : calls[c].readResult = "absent" /\ Settled(c) /\ ~Present(calls[c].id)

\* C4: verified and rejected are terminal: once a row's stored status is verified or
\* rejected, no step changes that status.
C4_TerminalStatus ==
    [][\A id \in Ids :
          (/\ Present(id)
           /\ store[id].status \in {"verified", "rejected"}
           /\ store'[id] # NoRow)
          => store'[id].status = store[id].status]_vars

RowsOf(view, id) == {i \in 1..Len(view) : view[i].id = id}

\* C5: when a decide has shown its success confirmation, every dependent view has been
\* invalidated and re-fetched, and the pending list no longer holds the record.
C5_SuccessAfterRefresh ==
    \A c \in CallIds :
        calls[c].okToast > 0 =>
            /\ calls[c].invDone = Views
            /\ calls[c].refDone = Refetched
            /\ RowsOf(pendingStations, calls[c].id) = {}

\* C6: within one successful decide the write completes, then the invalidations, then
\* the re-fetches, then the double-check read is issued, then the call settles: no
\* re-fetch is awaited before the invalidations finished, and the double-check read is
\* not issued before the re-fetches finished.
C6_StepOrder ==
    \A c \in CallIds :
        /\ calls[c].pc = "invalidate" => calls[c].wrote /\ calls[c].invDone = {}
        /\ calls[c].invDone # {} => calls[c].wrote /\ calls[c].invDone = Views
        /\ calls[c].pc = "refetch" => calls[c].invDone = Views /\ calls[c].refDone = {}
        /\ calls[c].refDone # {} => calls[c].invDone = Views /\ calls[c].refDone = Refetched
        /\ calls[c].pc = "verify" => calls[c].refDone = Refetched
        /\ calls[c].verifyIssued => calls[c].refDone = Refetched
        /\ Succeeded(c) => calls[c].verifyIssued
        /\ calls[c].wrote => calls[c].writeIssued /\ calls[c].readResult = "row"

\* a decide ran through all its steps
C6_Witness ==
    \E c \in CallIds :
        /\ Succeeded(c)
        /\ calls[c].invDone = Views
        /\ calls[c].refDone = Refetched
        /\ calls[c].verifyIssued

\* C7: after a decide has settled successfully the pending list does not show the
\* record, and after a decide to verified the verified list shows it.
C7_ViewsAfterSuccess ==
    \A c \in CallIds :
        Succeeded(c) =>
            /\ RowsOf(pendingStations, calls[c].id) = {}
            /\ calls[c].newStatus = "verified" => RowsOf(verifiedStations, calls[c].id) # {}

----------------------------------------------------------------------------
(* Live search: claims C8 .. C10, under SearchSpec *)

\* C8: a burst of query changes, each within 300 ms of the one before, leads to one
\* remote search, issued after 300 ms without a change and with the final query; to
\* none when the final query is blank.
C8_DebounceCollapses ==
    /\ sinceChange <= 1
    /\ timers # {} => sinceChange = 0
    /\ timers = {} => sinceChange = (IF Trim(searchQuery) = <<>> THEN 0 ELSE 1)
    /\ sinceChange = 1 => /\ lastIssued.query = searchQuery
                          /\ lastIssued.quiet >= Debounce

\* a burst of at least two rapid changes has quiesced and its one search was issued
C8_Witness ==
    /\ burst >= 2
    /\ timers = {}
    /\ sinceChange = 1
    /\ lastIssued.query = <<"f", "o">>

\* C9: last issued wins: a response never replaces the displayed results, nor opens
\* the map, unless it answers the most recently issued search.
C9_LastIssuedWins ==
    [][/\ (applied' # applied /\ applied' # 0) => applied' = issued
       /\ opened' # opened => opened'[Len(opened')].seq = issued]_vars

\* C10: once a blank query has cleared the results they stay empty until a search for
\* a non-blank query is issued, whatever response is still outstanding.
C10_BlankStaysEmpty ==
    blankCleared => searchResults = <<>>

\* C11: when the remote search fails nothing is shown to the user and the result set
\* becomes empty: the results of an earlier search are not left on display.
C11_FailedSearchClears ==
    lastResponse.outcome = "error" => searchResults = <<>>

\* a step on which the response of a remote search is handled
ResponseStep == lastResponse' # lastResponse

\* C12: the map is opened exactly on the steps that apply a search response with one
\* match, once, for the latitude and longitude columns of that match; a response with
\* no match or with several, a failed response, a blank query and every other step
\* open nothing.
C12_MapOnSingleMatch ==
    [][/\ opened' # opened <=> (/\ ResponseStep
                                /\ lastResponse'.outcome = "data"
                                /\ lastResponse'.count = 1)
       /\ opened' # opened =>
             /\ Len(searchResults') = 1
             /\ opened' = Append(opened,
                                 [seq |-> lastResponse'.seq,
                                  latitude |-> latitude(searchResults'[1].id),
                                  longitude |-> longitude(searchResults'[1].id)])]_vars

\* the map was opened for the one match of "fo", after a response with two matches,
\* a failed one or an empty one had opened nothing
C12_Witness ==
    /\ Len(opened) = 1
    /\ applied = 2
    /\ lastResponse.seq = 2
    /\ lastResponse.count = 1
    /\ opened[1] = [seq |-> 2, latitude |-> 18, longitude |-> 73]

----------------------------------------------------------------------------
(* Moderation: claims C13 .. C20 *)

\* C13: the in-flight marker is cleared on every way out of a decide call: whenever
\* updatingId holds an id, a call on that id has not settled yet, so a call that has
\* settled (success, read-verify failure, write failure, failed refresh, anomaly of the
\* double-check read) has left no marker behind.
C13_MarkerCleared ==
    updatingId # NoId => \E c \in CallIds : InFlight(c) /\ calls[c].id = updatingId

\* one call failed at the write, another ran to the end with a failed double-check
\* read, and the marker is clear
C13_Witness ==
    /\ updatingId = NoId
    /\ \E c1, c2 \in CallIds :
          /\ Settled(c1) /\ calls[c1].errText = "updateError"
          /\ Settled(c2) /\ calls[c2].wrote /\ calls[c2].mismatch

\* C14: the marker is kept per id: the marker of id is set exactly while a decide on id
\* has started and not settled, and a decide on another id neither clears it nor
\* overwrites it.
C14_MarkerPerId ==
    \A id \in Ids :
        (updatingId = id) <=> (\E c \in CallIds : InFlight(c) /\ calls[c].id = id)

\* C15: the write of a successful decide leaves the row with an updated_at strictly
\* greater than the one it had before the write.
C15_UpdatedAtAdvances ==
    [][\A c \in CallIds :
          (~calls[c].wrote /\ calls'[c].wrote)
          => store'[calls[c].id].updated_at > store[calls[c].id].updated_at]_vars

\* C16: every write of a status, by handleUpdateStatus or by approveStation, carries a
\* fresh updated_at, and the updated_at of a row never decreases.
C16_StatusWriteStamps ==
    [][/\ ~unstamped'
       /\ \A id \in Ids :
             (Present(id) /\ store'[id] # NoRow)
             => store'[id].updated_at >= store[id].updated_at]_vars

\* C17: a decide by a caller who is not a moderator fails at the guard, and a decide
\* that fails there, at the read-verify or at the write has shown one failure message
\* with a cause and no success confirmation; only a call whose write succeeded has
\* shown a success confirmation.
C17_OneFailureMessage ==
    \A c \in CallIds :
        /\ (Settled(c) /\ ~isAdmin) => ~calls[c].wrote
        /\ (Settled(c) /\ ~calls[c].wrote)
               => /\ calls[c].errToast = 1
                  /\ calls[c].errText # "none"
                  /\ calls[c].okToast = 0
        /\ calls[c].okToast > 0 => calls[c].wrote

\* C18: when the double-check read fails or finds another status, the call still
\* settles as a success: the step shows no failure message, changes no row of the
\* store and leaves the success confirmation as the call's only message.
C18_AnomalyOnlyLogged ==
    [][\A c \in CallIds :
          (calls[c].pc = "verify" /\ calls'[c].pc = "settled" /\ calls'[c].mismatch)
          => /\ store' = store
             /\ calls'[c].errToast = 0
             /\ calls'[c].errText = "none"
             /\ calls'[c].okToast = 1
             /\ calls'[c].wrote]_vars

\* the row was gone at the double-check read, and the call settled as a success
C18_Witness ==
    \E c \in CallIds :
        /\ Settled(c)
        /\ calls[c].mismatch
        /\ calls[c].okToast = 1
        /\ calls[c].errToast = 0
        /\ ~Present(calls[c].id)

\* C19: when the awaited invalidation or re-fetch of a decide ends with a list that is
\* not what the store holds (its fetch failed), the call shows a failure message of
\* its own.
C19_RefreshFailureSurfaced ==
    [][\A c \in CallIds :
          (/\ calls[c].pc \in {"invalidate", "refetch"}
           /\ calls'[c].pc # calls[c].pc
           /\ \/ pendingStations' # FetchByStatus("unverified")
              \/ verifiedStations' # FetchByStatus("verified"))
          => calls'[c].errToast > calls[c].errToast]_vars

----------------------------------------------------------------------------
(* Claims C21 .. C28 *)

\* C21: no operation writes status unverified: a row whose status is not unverified
\* is never unverified afterwards, every change of a status leads away from
\* unverified, and a write of handleUpdateStatus stores verified or rejected.
C21_NeverBackToUnverified ==
    [][/\ \A id \in Ids :
             /\ store[id].status # "unverified" => store'[id].status # "unverified"
             /\ store'[id].status # store[id].status => store'[id].status # "unverified"
       /\ \A c \in CallIds :
             (~calls[c].wrote /\ calls'[c].wrote)
             => /\ calls[c].newStatus \in {"verified", "rejected"}
                /\ store'[calls[c].id].status = calls[c].newStatus]_vars

\* handleUpdateStatus has rejected a row and approveStation has run on the same row
C21_Witness ==
    \E c \in CallIds, a \in DOMAIN approvals :
        /\ Succeeded(c)
        /\ calls[c].newStatus = "rejected"
        /\ approvals[a].pc = "done"
        /\ approvals[a].id = calls[c].id
        /\ store[calls[c].id].status \in {"verified", "rejected"}

\* q occurs in text as a contiguous substring, letter case ignored
OccursIn(q, text) ==
    \E start \in 1..(Len(text) - Len(q) + 1) :
        \A k \in 1..Len(q) : LowerChar(text[start + k - 1]) = LowerChar(q[k])

\* the texts of a row that the filter looks at: landmark only when there is one
FilterTexts(station) ==
    {station.name, station.description, station.username, station.userEmail}
        \cup (IF station.landmark = NullText THEN {} ELSE {station.landmark})

\* result holds exactly the rows of list picked by chosen, in the order of list
SelectionOf(result, list, chosen) ==
    /\ Len(result) = Cardinality(chosen)
    /\ \E at \in [1..Len(result) -> chosen] :
          /\ \A i, j \in 1..Len(result) : i < j => at[i] < at[j]
          /\ \A i \in 1..Len(result) : result[i] = list[at[i]]

\* C22 as stated: after a render each filtered list holds, in list order, exactly the
\* rows in which the query occurs as a case-insensitive substring of name,
\* description, username, email or landmark, and every row when the query is empty or
\* only whitespace.
C22_FilterBlankSelectsAll ==
    renders > 0 =>
        \A pair \in {<<filteredPending, pendingStations>>,
                     <<filteredVerified, verifiedStations>>} :
            SelectionOf(pair[1], pair[2],
                        {i \in 1..Len(pair[2]) :
                            \/ Trim(searchQuery) = <<>>
                            \/ \E text \in FilterTexts(pair[2][i]) : OccursIn(searchQuery, text)})

\* C22, amended: after a render each filtered list holds, in list order, exactly the
\* rows in which the query occurs as a case-insensitive substring of name,
\* description, username, email or landmark; the empty query occurs in every row, a
\* query of whitespace only is looked for like any other.
C22_FilterSelectsMatches ==
    renders > 0 =>
        \A pair \in {<<filteredPending, pendingStations>>,
                     <<filteredVerified, verifiedStations>>} :
            SelectionOf(pair[1], pair[2],
                        {i \in 1..Len(pair[2]) :
                            \E text \in FilterTexts(pair[2][i]) : OccursIn(searchQuery, text)})

\* of two pending rows the filter kept the second, found by its landmark "L" for the
\* query "l"
C22_Witness ==
    /\ renders > 0
    /\ searchQuery = <<"l">>
    /\ Len(pendingStations) = 2
    /\ pendingStations[1].landmark = NullText
    /\ pendingStations[2].landmark = <<"L">>
    /\ filteredPending = <<pendingStations[2]>>

\* C23: a render changes neither the lists, the search results, the query nor the
\* store; a render that follows another with no change of the lists or the query in
\* between computes the same filtered lists; and filtering a filtered list again
\* changes nothing.
C23_FilterIdempotent ==
    [][renders' = renders + 1 =>
          /\ pendingStations' = pendingStations
          /\ verifiedStations' = verifiedStations
          /\ searchResults' = searchResults
          /\ searchQuery' = searchQuery
          /\ store' = store
          /\ renders > 0 => /\ filteredPending' = filteredPending
                            /\ filteredVerified' = filteredVerified
          /\ FilterStations(filteredPending', searchQuery) = filteredPending'
          /\ FilterStations(filteredVerified', searchQuery) = filteredVerified']_vars

\* the page was rendered twice in a row and the filter had dropped a pending row
C23_Witness ==
    /\ renders = 2
    /\ Len(pendingStations) = 2
    /\ Len(filteredPending) = 1

\* the value shown for an attribute of the profile of row id
Resolved(id, attribute) ==
    LET profile == store[id].columns.user_profiles
    IN  IF profile.joined /\ profile[attribute] \notin {NullText, <<>>}
        THEN profile[attribute]
        ELSE Unknown

ListOf(list, st) ==
    /\ ViewIds(list) = {id \in Ids : store[id].status = st}
    /\ Len(list) = Cardinality(ViewIds(list))
    /\ \A i \in 1..Len(list) : list[i].status = st
    /\ \A i, j \in 1..Len(list) : i < j => created_at(list[i].id) > created_at(list[j].id)

\* C25: the pending list is exactly the unverified rows of the table and the verified
\* list exactly the verified rows, each newest first; a fetch that fails delivers
\* nothing, so a list is either as it was before the page loaded it or complete.
C25_ListsExact ==
    /\ pendingStations = <<>> \/ ListOf(pendingStations, "unverified")
    /\ verifiedStations = <<>> \/ ListOf(verifiedStations, "verified")

\* both rows are verified and listed newest first; the pending list is loaded and
\* empty or was never loaded
C25_Witness ==
    /\ Len(verifiedStations) = 2
    /\ verifiedStations[1].id = "s2"
    /\ verifiedStations[2].id = "s1"
    /\ pendingStations = <<>>

\* C26: every decide that was started settles, as a success or as a failure, in a
\* state where the marker is clear, provided every awaited store call and fetch
\* returns; no call waits for ever or is given up midway.
C26_DecideSettles ==
    \A c \in 1..MaxLiveCalls :
        (c \in CallIds) ~> (c \in CallIds /\ Settled(c) /\ updatingId = NoId)

\* a call has gone through all its awaits and its double-check read agreed
C26_Witness ==
    \E c \in CallIds :
        /\ Settled(c)
        /\ calls[c].verifyIssued
        /\ ~calls[c].mismatch
        /\ updatingId = NoId

\* C27: a step of handleUpdateStatus changes at most the status and updated_at of the
\* row of its own id, on the step of its write: every other row and every other
\* column of that row (name, description, landmark, latitude, longitude, added_by,
\* created_at, the joined profile) stay as they were, and no row is removed.
C27_WriteFrame ==
    [][calls' # calls =>
          \A id \in Ids :
              /\ store'[id].columns = store[id].columns
              /\ Present(id) => store'[id] # NoRow
              /\ store'[id] # store[id]
                 => \E c \in CallIds : /\ calls[c].id = id
                                       /\ ~calls[c].wrote
                                       /\ calls'[c].wrote]_vars

\* a write has changed the status of its row, whose other columns are as submitted,
\* and the other row is untouched
C27_Witness ==
    \E c \in CallIds, other \in Ids :
        /\ calls[c].wrote
        /\ other # calls[c].id
        /\ store[calls[c].id].status = calls[c].newStatus
        /\ store[calls[c].id].columns = Columns(calls[c].id)
        /\ store[other] = [status |-> "unverified", updated_at |-> 0,
                           columns |-> Columns(other)]

\* C28: the step on which a call fails at its read-verify or at its write changes
\* neither the store nor the lists nor the invalidation of the map view, and the call
\* has then invalidated nothing, re-fetched nothing and issued no double-check read;
\* a call does any of the three only after its write succeeded.
C28_FailureStopsHandler ==
    [][\A c \in CallIds :
          /\ (InFlight(c) /\ calls'[c].pc = "settled" /\ ~calls'[c].wrote)
             => /\ store' = store
                /\ pendingStations' = pendingStations
                /\ verifiedStations' = verifiedStations
                /\ mapInvalidated' = mapInvalidated
                /\ calls'[c].invDone = {}
                /\ calls'[c].refDone = {}
                /\ ~calls'[c].verifyIssued
          /\ (\/ calls'[c].pc \in {"invalidate", "refetch", "verify"}
              \/ calls'[c].invDone # {}
              \/ calls'[c].refDone # {}
              \/ calls'[c].verifyIssued)
             => calls'[c].wrote]_vars

\* a call failed at its write: the row is still unverified and still listed as pending
C28_Witness ==
    \E c \in CallIds :
        /\ Settled(c)
        /\ calls[c].errText = "updateError"
        /\ store[calls[c].id].status = "unverified"
        /\ calls[c].invDone = {}
        /\ ~calls[c].verifyIssued
        /\ RowsOf(pendingStations, calls[c].id) # {}

====
